---- MODULE Spec2Model ----
(***************************************************************************)
(* RelationalGCNRegressor                                                  *)
(* (src/gnn_scheduler/gnns/models/relational_gcn_regressor.py).            *)
(*                                                                         *)
(* One module object is followed from before its construction, through the *)
(* two statements of __init__, and then through any number of forward      *)
(* calls, each of which is three steps: the call of self.graph_conv, the   *)
(* call of self.aggregation_layer and the return.                          *)
(*                                                                         *)
(* Tensors are records [name, width]; floats (slopes, dropout rates) are   *)
(* counted in tenths, so 0.1 is 1.  An optional argument is a sequence of  *)
(* length 0 (omitted) or 1 (given).                                        *)
(*                                                                         *)
(* MultiGraphConvolutionLayers and GraphAggregationLayer are imported from *)
(* gnn_scheduler.gnns.models; what they do with their arguments is taken   *)
(* from the specification's description of the two collaborators.          *)
(***************************************************************************)
EXTENDS Integers, Sequences, FiniteSets, TLC

VARIABLES
    pc,                 \* position of the object's life cycle
    args,               \* the arguments __init__ was called with
    graph_conv,         \* self.graph_conv
    aggregation_layer,  \* self.aggregation_layer
    call,               \* the arguments of the forward call in progress
    hidden_features,    \* forward's local hidden_features
    output,             \* forward's local output
    result,             \* what the last finished forward gave its caller
    raised,             \* the exception that left __init__ or forward
    log,                \* collaborator invocations of the current call
    ncalls              \* number of forward calls started

vars == <<pc, args, graph_conv, aggregation_layer, call, hidden_features,
          output, result, raised, log, ncalls>>

----------------------------------------------------------------------------
(* Bounds *)

MaxLayers == 2
MaxCalls == 2

----------------------------------------------------------------------------
(* Values *)

None == [none |-> TRUE]
NoError == "NoError"

EdgeTypeNum == 2
LeakyReluSlopeDefault == 1

Sizes == {1, 2}
InFeatureSizes == {2, 3}
DropoutRates == {0, 5}
GivenSlopes == {2}
FeatureDimSizes == {0, 2}
Errors == {"ShapeError", "TypeError"}

RECURSIVE SeqsUpTo(_)
SeqsUpTo(n) ==
    IF n = 0 THEN {<<>>}
    ELSE LET shorter == SeqsUpTo(n - 1)
         IN  shorter \cup {Append(s, x) : s \in {t \in shorter : Len(t) = n - 1}, x \in Sizes}

ConvUnitsLists == SeqsUpTo(MaxLayers)

Optional(S) == {<<>>} \cup {<<x>> : x \in S}

CtorArgs ==
    [in_features : InFeatureSizes,
     conv_units : ConvUnitsLists,
     aggregation_units : Sizes,
     dropout_rate : DropoutRates,
     leaky_relu_slope : Optional(GivenSlopes),
     with_features : BOOLEAN,
     feature_dim_size : FeatureDimSizes]

Tensor(n) == [tensor |-> n]
NodeFeatureTensors == {Tensor("x1"), Tensor("x2")}
AdjTensors == {Tensor("adj")}
HTensors == {Tensor("h1"), Tensor("h2")}

ForwardArgs ==
    [node_features : NodeFeatureTensors,
     adj_matrices : AdjTensors,
     h_tensor : Optional(HTensors)]

Returned(v) == [raised |-> NoError, value |-> v]
Raised(e) == [raised |-> e, value |-> None]

----------------------------------------------------------------------------
(* Python semantics used by the class *)

\* A parameter with a default value: the default when the argument is omitted.
Default(opt, d) == IF opt = <<>> THEN d ELSE opt[1]

\* Variant: a guarded read, "conv_units[-1] if conv_units else 0".
GetItemLast_Guarded(s) ==
    IF Len(s) = 0 THEN Returned(0) ELSE Returned(s[Len(s)])

\* s[-1]: the last entry, IndexError on an empty list.
GetItemLast(s) ==
    IF Len(s) = 0 THEN Raised("IndexError") ELSE Returned(s[Len(s)])

----------------------------------------------------------------------------
(* The two collaborators *)

\* What the convolution stack computes from its configuration and inputs: a
\* hidden embedding as wide as its last layer, which reads the auxiliary
\* tensor only when it was configured with feature support.
MultiGraphConvolutionLayers_forward(cfg, node_features, adj_matrices, h_tensor) ==
    [hidden |-> "hidden_features",
     width |-> cfg.hidden_sizes[Len(cfg.hidden_sizes)],
     by |-> cfg,
     of |-> <<node_features, adj_matrices,
              IF cfg.with_features THEN h_tensor ELSE None>>]

\* What the aggregation layer computes: one graph-level vector, as wide as
\* its configured output size.
GraphAggregationLayer_forward(cfg, hidden) ==
    [graphs |-> 1,
     width |-> cfg.out_features,
     by |-> cfg,
     of |-> hidden]

----------------------------------------------------------------------------
(* __init__ *)

\* Variant: with_features=True written instead of with_features=with_features.
GraphConvCtorArgs_FeaturesAlwaysOn(a) ==
    [in_features |-> a.in_features,
     hidden_sizes |-> a.conv_units,
     activation |-> [type |-> "LeakyReLU",
                     negative_slope |-> Default(a.leaky_relu_slope, LeakyReluSlopeDefault)],
     edge_type_num |-> EdgeTypeNum,
     dropout_rate |-> a.dropout_rate,
     with_features |-> TRUE,
     feature_dim_size |-> a.feature_dim_size]

\* Variant: edge_type_num=len(conv_units).
GraphConvCtorArgs_EdgeTypesFromLayers(a) ==
    [in_features |-> a.in_features,
     hidden_sizes |-> a.conv_units,
     activation |-> [type |-> "LeakyReLU",
                     negative_slope |-> Default(a.leaky_relu_slope, LeakyReluSlopeDefault)],
     edge_type_num |-> Len(a.conv_units),
     dropout_rate |-> a.dropout_rate,
     with_features |-> a.with_features,
     feature_dim_size |-> a.feature_dim_size]

\* The arguments of MultiGraphConvolutionLayers(...), lines 52-60.
GraphConvCtorArgs(a) ==
    [in_features |-> a.in_features,
     hidden_sizes |-> a.conv_units,
     activation |-> [type |-> "LeakyReLU",
                     negative_slope |-> Default(a.leaky_relu_slope, LeakyReluSlopeDefault)],
     edge_type_num |-> EdgeTypeNum,
     dropout_rate |-> a.dropout_rate,
     with_features |-> a.with_features,
     feature_dim_size |-> a.feature_dim_size]

\* Variant: the aggregation layer sized to the model's input, in_features.
AggregationCtorArgs_InFeatures(a) ==
    LET last == GetItemLast(a.conv_units)
    IN  IF last.raised # NoError THEN last
        ELSE Returned([in_features |-> a.in_features,
                       out_features |-> a.aggregation_units,
                       leaky_relu_slope |-> Default(a.leaky_relu_slope, LeakyReluSlopeDefault)])

\* Variant: the two sizes in the other order.
AggregationCtorArgs_Swapped(a) ==
    LET last == GetItemLast(a.conv_units)
    IN  IF last.raised # NoError THEN last
        ELSE Returned([in_features |-> a.aggregation_units,
                       out_features |-> last.value,
                       leaky_relu_slope |-> Default(a.leaky_relu_slope, LeakyReluSlopeDefault)])

\* Variant: conv_units[0] read after the check of conv_units[-1].
AggregationCtorArgs_FirstEntry(a) ==
    LET last == GetItemLast(a.conv_units)
    IN  IF last.raised # NoError THEN last
        ELSE Returned([in_features |-> a.conv_units[1],
                       out_features |-> a.aggregation_units,
                       leaky_relu_slope |-> Default(a.leaky_relu_slope, LeakyReluSlopeDefault)])

\* Variant: leaky_relu_slope not passed on, the layer keeps a slope of 0.1.
AggregationCtorArgs_DefaultSlope(a) ==
    LET last == GetItemLast(a.conv_units)
    IN  IF last.raised # NoError THEN last
        ELSE Returned([in_features |-> last.value,
                       out_features |-> a.aggregation_units,
                       leaky_relu_slope |-> LeakyReluSlopeDefault])

\* The arguments of GraphAggregationLayer(...), lines 64-68; evaluating the
\* first of them raises on an empty conv_units.
AggregationCtorArgs(a) ==
    LET last == GetItemLast(a.conv_units)
    IN  IF last.raised # NoError THEN last
        ELSE Returned([in_features |-> last.value,
                       out_features |-> a.aggregation_units,
                       leaky_relu_slope |-> Default(a.leaky_relu_slope, LeakyReluSlopeDefault)])

\* RelationalGCNRegressor(...) is called: super().__init__(), line 49.
init_begin ==
    /\ pc = "start"
    /\ \E a \in CtorArgs : args' = a
    /\ pc' = "init_graph_conv"
    /\ UNCHANGED <<graph_conv, aggregation_layer, call, hidden_features,
                   output, result, raised, log, ncalls>>

\* self.graph_conv = MultiGraphConvolutionLayers(...), lines 52-60.  The
\* collaborator's constructor returns the configured stack or raises.
init_graph_conv ==
    /\ pc = "init_graph_conv"
    /\ \/ /\ graph_conv' = GraphConvCtorArgs(args)
          /\ pc' = "init_aggregation_layer"
          /\ UNCHANGED raised
       \/ /\ \E e \in Errors : raised' = e
          /\ pc' = "init_raised"
          /\ UNCHANGED graph_conv
    /\ UNCHANGED <<args, aggregation_layer, call, hidden_features, output,
                   result, log, ncalls>>

\* self.aggregation_layer = GraphAggregationLayer(...), lines 64-68.
init_aggregation_layer ==
    /\ pc = "init_aggregation_layer"
    /\ LET a == AggregationCtorArgs(args)
       IN  IF a.raised # NoError
           THEN /\ raised' = a.raised
                /\ pc' = "init_raised"
                /\ UNCHANGED aggregation_layer
           ELSE \/ /\ aggregation_layer' = a.value
                   /\ pc' = "idle"
                   /\ UNCHANGED raised
                \/ /\ \E e \in Errors : raised' = e
                   /\ pc' = "init_raised"
                   /\ UNCHANGED aggregation_layer
    /\ UNCHANGED <<args, graph_conv, call, hidden_features, output, result,
                   log, ncalls>>

----------------------------------------------------------------------------
(* forward *)

\* forward(node_features, adj_matrices, h_tensor=None) is called, lines 70-75:
\* the parameters are bound, h_tensor to None when omitted.  call.passed keeps
\* what the caller wrote.
forward_call ==
    /\ pc = "idle"
    /\ ncalls < MaxCalls
    /\ \E f \in ForwardArgs :
          call' = [node_features |-> f.node_features,
                   adj_matrices |-> f.adj_matrices,
                   h_tensor |-> Default(f.h_tensor, None),
                   passed |-> f]
    /\ pc' = "forward_graph_conv"
    /\ ncalls' = ncalls + 1
    /\ log' = <<>>
    /\ result' = None
    /\ raised' = NoError
    /\ UNCHANGED <<args, graph_conv, aggregation_layer, hidden_features, output>>

\* Variant: h_tensor passed on only when the stack has feature support.
GraphConvCallArgs_Gated ==
    <<call.node_features, call.adj_matrices,
      IF graph_conv.with_features THEN call.h_tensor ELSE None>>

\* The argument list of self.graph_conv(...), lines 86-88.
GraphConvCallArgs == <<call.node_features, call.adj_matrices, call.h_tensor>>

\* Variant: the aggregation layer applied to the input, not to the embedding.
AggregationCallArgs_NodeFeatures == <<call.node_features>>

\* The argument list of self.aggregation_layer(...), line 91.
AggregationCallArgs == <<hidden_features>>

\* The value of the return statement, line 93.
ForwardReturnValue == output

\* Variant: an exception of the stack is caught and the input embedding used
\* in place of the stack's result.
forward_graph_conv_Fallback ==
    /\ pc = "forward_graph_conv"
    /\ LET a == GraphConvCallArgs
       IN  \/ LET r == MultiGraphConvolutionLayers_forward(graph_conv, a[1], a[2], a[3])
              IN  /\ hidden_features' = r
                  /\ log' = Append(log, [op |-> "graph_conv", args |-> a, ret |-> Returned(r)])
           \/ \E e \in Errors :
                  /\ log' = Append(log, [op |-> "graph_conv", args |-> a, ret |-> Raised(e)])
                  /\ hidden_features' = call.node_features
    /\ pc' = "forward_aggregation_layer"
    /\ UNCHANGED <<args, graph_conv, aggregation_layer, call, output, ncalls,
                   result, raised>>

\* hidden_features = self.graph_conv(node_features, adj_matrices, h_tensor),
\* lines 86-88.  An exception of the collaborator leaves forward.
forward_graph_conv ==
    /\ pc = "forward_graph_conv"
    /\ LET a == GraphConvCallArgs
       IN  \/ LET r == MultiGraphConvolutionLayers_forward(graph_conv, a[1], a[2], a[3])
              IN  /\ hidden_features' = r
                  /\ log' = Append(log, [op |-> "graph_conv", args |-> a, ret |-> Returned(r)])
                  /\ pc' = "forward_aggregation_layer"
                  /\ UNCHANGED <<result, raised>>
           \/ \E e \in Errors :
                  /\ log' = Append(log, [op |-> "graph_conv", args |-> a, ret |-> Raised(e)])
                  /\ raised' = e
                  /\ result' = Raised(e)
                  /\ pc' = "idle"
                  /\ UNCHANGED hidden_features
    /\ UNCHANGED <<args, graph_conv, aggregation_layer, call, output, ncalls>>

\* output = self.aggregation_layer(hidden_features), line 91.
forward_aggregation_layer ==
    /\ pc = "forward_aggregation_layer"
    /\ LET a == AggregationCallArgs
       IN  \/ LET r == GraphAggregationLayer_forward(aggregation_layer, a[1])
              IN  /\ output' = r
                  /\ log' = Append(log, [op |-> "aggregation_layer", args |-> a, ret |-> Returned(r)])
                  /\ pc' = "forward_return"
                  /\ UNCHANGED <<result, raised, hidden_features>>
           \/ \E e \in Errors :
                  /\ log' = Append(log, [op |-> "aggregation_layer", args |-> a, ret |-> Raised(e)])
                  /\ raised' = e
                  /\ result' = Raised(e)
                  /\ pc' = "idle"
                  /\ hidden_features' = None
                  /\ UNCHANGED output
    /\ UNCHANGED <<args, graph_conv, aggregation_layer, call, ncalls>>

\* return output, line 93; the locals end with the call.
forward_return ==
    /\ pc = "forward_return"
    /\ result' = Returned(ForwardReturnValue)
    /\ pc' = "idle"
    /\ hidden_features' = None
    /\ output' = None
    /\ UNCHANGED <<args, graph_conv, aggregation_layer, call, raised, log, ncalls>>

----------------------------------------------------------------------------

Init ==
    /\ pc = "start"
    /\ args = None
    /\ graph_conv = None
    /\ aggregation_layer = None
    /\ call = None
    /\ hidden_features = None
    /\ output = None
    /\ result = None
    /\ raised = NoError
    /\ log = <<>>
    /\ ncalls = 0

Next ==
    \/ init_begin
    \/ init_graph_conv
    \/ init_aggregation_layer
    \/ forward_call
    \/ forward_graph_conv
    \/ forward_aggregation_layer
    \/ forward_return

Spec == Init /\ [][Next]_vars

----------------------------------------------------------------------------
(* Properties *)

Constructed == pc \in {"idle", "forward_graph_conv", "forward_aggregation_layer",
                       "forward_return"}
HasReturned == pc = "idle" /\ ncalls > 0 /\ raised = NoError
HasRaised == pc = "idle" /\ ncalls > 0 /\ raised # NoError
Last(s) == s[Len(s)]

\* C1: in every forward call the convolution stack is invoked once, with
\* (node_features, adj_matrices, h_tensor); the aggregation layer is invoked
\* only after the stack has returned, once, with exactly the value the stack
\* returned; and a call that completes returns exactly the value the
\* aggregation layer returned.
C1_ConvThenAggregationThenReturn ==
    /\ \A i \in 1..Len(log) :
          /\ log[i].op = "graph_conv" =>
                /\ i = 1
                /\ log[i].args = <<call.node_features, call.adj_matrices, call.h_tensor>>
          /\ log[i].op = "aggregation_layer" =>
                /\ i = 2
                /\ log[1].op = "graph_conv"
                /\ log[1].ret.raised = NoError
                /\ log[i].args = <<log[1].ret.value>>
    /\ HasReturned =>
          /\ Len(log) = 2
          /\ log[1].op = "graph_conv"
          /\ log[2].op = "aggregation_layer"
          /\ result = log[2].ret

C1_Witness ==
    /\ HasReturned
    /\ Len(log) = 2
    /\ call.passed.h_tensor # <<>>

\* C2: once the aggregation layer is constructed, conv_units is non-empty, the
\* layer's input size is the last entry of conv_units and its output size is
\* aggregation_units; every tensor handed to the aggregation layer is as wide
\* as the layer's input size.
C2_AggregationSizedToConvOutput ==
    /\ aggregation_layer # None =>
          /\ Len(args.conv_units) > 0
          /\ aggregation_layer.in_features = Last(args.conv_units)
          /\ aggregation_layer.out_features = args.aggregation_units
    /\ \A i \in 1..Len(log) :
          log[i].op = "aggregation_layer" =>
             log[i].args[1].width = aggregation_layer.in_features

C2_Witness ==
    /\ Len(log) = 2
    /\ log[2].op = "aggregation_layer"
    /\ Len(args.conv_units) = 2
    /\ args.conv_units[1] # args.conv_units[2]
    /\ args.in_features # Last(args.conv_units)
    /\ args.aggregation_units # Last(args.conv_units)

C4_OutputWidthOnlyFromAggregationUnits ==
    pc = "idle" =>
       \A cu \in ConvUnitsLists, wf \in BOOLEAN :
          Len(cu) > 0 =>
             LET b == [args EXCEPT !.conv_units = cu, !.with_features = wf]
                 gc == GraphConvCtorArgs(b)
                 al == AggregationCtorArgs(b).value
             IN  /\ al.out_features = aggregation_layer.out_features
                 /\ HasReturned =>
                       GraphAggregationLayer_forward(al,
                          MultiGraphConvolutionLayers_forward(gc,
                             call.node_features, call.adj_matrices, call.h_tensor)).width
                       = result.value.width
                 /\ Last(cu) = Last(args.conv_units) => al = aggregation_layer

C4_Witness ==
    /\ HasReturned
    /\ Len(args.conv_units) = 2
    /\ args.conv_units[1] # args.conv_units[2]
    /\ args.aggregation_units # Last(args.conv_units)

C6_ErrorsPropagateUnchanged ==
    /\ Len(log) <= 2
    /\ Len(log) = 2 => log[1].op = "graph_conv" /\ log[2].op = "aggregation_layer"
    /\ \A i \in 1..Len(log) :
          log[i].ret.raised # NoError =>
             /\ i = Len(log)
             /\ pc = "idle"
             /\ raised = log[i].ret.raised
             /\ result = Raised(log[i].ret.raised)

C6_Witness ==
    /\ HasRaised
    /\ Len(log) = 1
    /\ log[1].op = "graph_conv"
    /\ raised = "ShapeError"

\* C7: the convolution stack is constructed with in_features, conv_units,
\* dropout_rate, with_features and feature_dim_size as the caller gave them,
\* and with an edge-type count of 2.
C7_GraphConvConstructedFromArguments ==
    graph_conv # None =>
       /\ graph_conv.in_features = args.in_features
       /\ graph_conv.hidden_sizes = args.conv_units
       /\ graph_conv.dropout_rate = args.dropout_rate
       /\ graph_conv.with_features = args.with_features
       /\ graph_conv.feature_dim_size = args.feature_dim_size
       /\ graph_conv.edge_type_num = 2

C7_Witness ==
    /\ Constructed
    /\ Len(args.conv_units) = 1
    /\ args.with_features
    /\ args.feature_dim_size # 0
    /\ args.dropout_rate # 0

\* C8: the slope of the stack's LeakyReLU and the slope given to the
\* aggregation layer are both the constructor's leaky_relu_slope, 0.1 (one
\* tenth) when omitted; the aggregation layer's configuration is the same
\* for every dropout_rate.
C8_OneSlopeAndNoDropoutInAggregation ==
    Constructed =>
       /\ graph_conv.activation.type = "LeakyReLU"
       /\ graph_conv.activation.negative_slope = aggregation_layer.leaky_relu_slope
       /\ args.leaky_relu_slope = <<>> => aggregation_layer.leaky_relu_slope = 1
       /\ args.leaky_relu_slope # <<>> =>
             aggregation_layer.leaky_relu_slope = args.leaky_relu_slope[1]
       /\ DOMAIN aggregation_layer = {"in_features", "out_features", "leaky_relu_slope"}
       /\ \A d \in DropoutRates :
             AggregationCtorArgs([args EXCEPT !.dropout_rate = d]).value = aggregation_layer

C8_Witness ==
    /\ Constructed
    /\ args.leaky_relu_slope # <<>>
    /\ args.leaky_relu_slope[1] # LeakyReluSlopeDefault
    /\ args.dropout_rate # 0

\* C9: a construction with an empty conv_units never completes and never
\* constructs the aggregation layer.
C9_EmptyConvUnitsNeverConstructs ==
    (pc # "start" /\ args.conv_units = <<>>) =>
       /\ ~Constructed
       /\ aggregation_layer = None

C9_Witness ==
    /\ pc = "init_raised"
    /\ args.conv_units = <<>>
    /\ graph_conv # None
    /\ raised = "IndexError"

\* C10: the convolution stack receives the caller's h_tensor, None when it was
\* omitted, whatever with_features is; and no step of a constructed module
\* changes graph_conv or aggregation_layer.
C10_ForwardPassesHTensorAndKeepsSubmodules ==
    [][/\ (pc = "forward_graph_conv" /\ pc' # pc) =>
             /\ Len(log') = 1
             /\ log'[1].op = "graph_conv"
             /\ log'[1].args[3] = (IF call.passed.h_tensor = <<>> THEN None
                                   ELSE call.passed.h_tensor[1])
       /\ Constructed =>
             /\ graph_conv' = graph_conv
             /\ aggregation_layer' = aggregation_layer
             /\ args' = args]_vars

C10_Witness ==
    /\ pc = "idle"
    /\ ncalls = 2
    /\ Len(log) = 2
    /\ ~args.with_features
    /\ call.passed.h_tensor # <<>>

====
